---- MODULE Spec2Model ----
(***************************************************************************)
(* A model of SearchServiceStub, the AppScale search API stub              *)
(* (AppServer/google/appengine/api/search/appscale_search_stub.py).        *)
(*                                                                         *)
(* One stub object is modelled at a time; constructing a stub replaces it  *)
(* by a fresh object.  Every public or private method the properties talk  *)
(* about is one atomic action.  Python values are modelled as follows:     *)
(*   - dicts are functions whose DOMAIN is the set of keys;                *)
(*   - None is the string "<None>" where it stands for a namespace or a    *)
(*     file name, and the record NoIndex where it stands for an index;     *)
(*   - a raised exception is a record [type, code, detail]; a normal       *)
(*     return is NoRaise.                                                  *)
(***************************************************************************)
EXTENDS Integers, Sequences, FiniteSets, TLC

VARIABLES
  constructed,      \* TRUE once __init__ returned normally: a stub exists
  attrs,            \* the instance attributes assigned so far
  indexes,          \* self.__indexes: namespace -> (index name -> handle)
  index_file,       \* self.__index_file
  index_file_lock,  \* self.__index_file_lock is held
  files,            \* the file system: path -> file state
  current_namespace,\* what namespace_manager.get_namespace() returns
  nextHandle,       \* identity of the next SimpleIndex object created
  last,             \* the last call: its inputs and its outcome
  written           \* history: the state at the last Write()

vars == <<constructed, attrs, indexes, index_file, index_file_lock, files,
          current_namespace, nextHandle, last, written>>

-----------------------------------------------------------------------------
(* Bounds *)

\* how many SimpleIndex objects a behaviour may create
MaxHandles == 2

-----------------------------------------------------------------------------
(* Values *)

None == "<None>"

EmptyDict == <<>>

Namespaces == {"", "ns1"}
RequestNamespaces == Namespaces \cup {None}
Names == {"a", "b"}
IndexSpecs == [name : Names, namespace : RequestNamespaces]

IndexFiles == {None, "", "idx"}
Paths == {"idx"}

\* "index is None"
NoIndex == [id |-> 0, name |-> ""]

NoRaise == [type |-> "None", code |-> 0, detail |-> ""]
Raise(type) == [type |-> type, code |-> 0, detail |-> ""]

\* names bound at module level: the imports, the two constants, the class
ModuleNames ==
  {"logging", "os", "string", "tempfile", "threading", "urllib", "uuid",
   "document_pb", "apiproxy_stub", "namespace_manager", "query_parser",
   "QueryParser", "search", "search_service_pb", "search_util", "SimpleIndex",
   "remote_api_pb", "apiproxy_errors",
   "CERT_LOCATION", "KEY_LOCATION", "SearchServiceStub"}

_VERSION == 1

\* the attributes __init__ assigns (the base class keeps its own, under its
\* own mangled names)
InitAttrs == {"__indexes", "__index_file", "__index_file_lock", "APIProxyStub"}

-----------------------------------------------------------------------------
(* dict helpers *)

setdefault(d, k, v) == IF k \in DOMAIN d THEN d ELSE d @@ (k :> v)
get(d, k) == IF k \in DOMAIN d THEN d[k] ELSE NoIndex
setitem(d, k, v) == [x \in DOMAIN d \cup {k} |-> IF x = k THEN v ELSE d[x]]

\* the handles of a cache, each with the place it is cached at
Entries(d) ==
  UNION {{<<ns, n, d[ns][n]>> : n \in DOMAIN d[ns]} : ns \in DOMAIN d}

-----------------------------------------------------------------------------
(* Protocol buffers: a message is its sequence of field values; the wire   *)
(* format puts the length in front.                                        *)

Messages == {<<7>>}

Encode(m) == <<Len(m)>> \o m
WellFormed(s) == Len(s) >= 1 /\ s[1] = Len(s) - 1
Decode(s) == Tail(s)
\* ParseFromString: Clear(), then merge what the string holds
ParseFromString(response, s) == Decode(s)

ApplicationErrors == {[code |-> 3, detail |-> "internal"]}
NoApplicationError == [code |-> 0, detail |-> ""]

\* what sendCommand hands back: nothing, or a remote_api_pb.Response
NoReply == [present |-> FALSE, has_response |-> FALSE, response |-> <<>>,
            has_application_error |-> FALSE,
            application_error |-> NoApplicationError,
            has_exception |-> FALSE, exception |-> "None"]

AllReplies ==
  {NoReply} \cup
  {[present |-> TRUE, has_response |-> hr,
    response |-> IF hr THEN Encode(<<9>>) ELSE <<>>,
    has_application_error |-> (ae # NoApplicationError),
    application_error |-> ae,
    has_exception |-> he,
    exception |-> IF he THEN "RemoteException" ELSE "None"] :
     hr \in BOOLEAN, ae \in ApplicationErrors \cup {NoApplicationError},
     he \in BOOLEAN}

\* the replies tried: a reply without a response payload is tried with and
\* without an application error, and without an exception
Replies == {r \in AllReplies : r.has_response \/ ~r.has_exception}

\* the caller's response object before the call
FreshResponse == <<>>

-----------------------------------------------------------------------------
(* The record of the last call *)

NoCall == [op |-> "none",
           arg_index_file |-> None,
           index_spec |-> [name |-> "", namespace |-> None],
           create |-> FALSE,
           result |-> NoIndex,
           request |-> <<>>,
           reply |-> NoReply,
           response |-> FreshResponse,
           sent |-> <<>>,
           raised |-> NoRaise,
           fs_touched |-> FALSE,
           acquired |-> FALSE]

\* written: whether the stub's last cache-relevant call was Write(), and the
\* cache it had then
NoWrite == [valid |-> FALSE, indexes |-> EmptyDict]

-----------------------------------------------------------------------------
(* The file system *)

Absent == [exists |-> FALSE, version |-> 0, indexes |-> EmptyDict]

\* an index file some earlier SDK process pickled
SavedIndexes == ("" :> ("a" :> [id |-> -1, name |-> "a"]))

FileStates == {Absent} \cup
              {[exists |-> TRUE, version |-> v, indexes |-> SavedIndexes] :
                 v \in {_VERSION, _VERSION + 1}}

-----------------------------------------------------------------------------
(* SearchServiceStub *)

\* a variant that tests the namespace for truth instead of for None
_GetNamespace_falsy(namespace) ==
  IF namespace \notin {None, ""} THEN namespace ELSE current_namespace

_GetNamespace(namespace) ==
  IF namespace # None THEN namespace ELSE current_namespace

\* a new SimpleIndex object: its identity and the name its index_spec gives
SimpleIndex(index_spec) ==
  [id |-> nextHandle, name |-> index_spec.name]

\* [indexes, result]: the cache afterwards and the value returned
_GetIndex(index_spec, create) ==
  LET namespace == _GetNamespace(index_spec.namespace)
      d == setdefault(indexes, namespace, EmptyDict)
      index == get(d[namespace], index_spec.name)
  IN IF index = NoIndex
       THEN IF create
              THEN LET new == SimpleIndex(index_spec)
                   IN [indexes |-> setitem(d, namespace,
                                     setitem(d[namespace], index_spec.name, new)),
                       result |-> new]
              ELSE [indexes |-> d, result |-> NoIndex]
       ELSE [indexes |-> d, result |-> index]

\* the except clause of _ReadFromFile: the tuple of exception classes is
\* evaluated when an exception reaches it, and names pickle
ExceptClause(exc) ==
  IF "pickle" \notin ModuleNames
    THEN Raise("NameError")
    ELSE IF exc \in {"AttributeError", "LookupError", "ImportError", "NameError",
                     "TypeError", "ValueError", "PickleError", "IOError"}
           THEN NoRaise
           ELSE Raise(exc)

\* [indexes, raised, acquired, fs_touched]; the lock is released on every
\* path (finally)
_ReadFromFile(path) ==
  LET out(ix, r) == [indexes |-> ix, raised |-> r,
                     acquired |-> TRUE, fs_touched |-> TRUE]
  IN IF path = None
       THEN \* os.path.isfile(None) raises TypeError
            out(EmptyDict, ExceptClause("TypeError"))
       ELSE IF path \notin DOMAIN files
         THEN \* os.path.isfile of a name that is no file
              out(EmptyDict, NoRaise)
         ELSE IF files[path].exists
           THEN IF "pickle" \notin ModuleNames
                  THEN out(EmptyDict, ExceptClause("NameError"))
                  ELSE IF files[path].version = _VERSION
                         THEN out(files[path].indexes, NoRaise)
                         ELSE out(EmptyDict, NoRaise)
           ELSE out(EmptyDict, NoRaise)

\* a variant that takes over whatever _ReadFromFile returned, empty or not
Read_unconditional(self_index_file, self_indexes) ==
  IF self_index_file \in {None, ""}
    THEN [indexes |-> self_indexes, raised |-> NoRaise,
          acquired |-> FALSE, fs_touched |-> FALSE]
    ELSE LET r == _ReadFromFile(self_index_file)
         IN IF r.raised = NoRaise
              THEN r
              ELSE [r EXCEPT !.indexes = self_indexes]

\* a variant without the early return for an unset index file
Read_unguarded(self_index_file, self_indexes) ==
  LET r == _ReadFromFile(self_index_file)
  IN IF r.raised = NoRaise /\ r.indexes # EmptyDict
       THEN r
       ELSE [r EXCEPT !.indexes = self_indexes]

\* [indexes, raised, acquired, fs_touched] for a stub whose fields are
\* self_index_file and self_indexes
Read(self_index_file, self_indexes) ==
  IF self_index_file \in {None, ""}
    THEN [indexes |-> self_indexes, raised |-> NoRaise,
          acquired |-> FALSE, fs_touched |-> FALSE]
    ELSE LET r == _ReadFromFile(self_index_file)
         IN IF r.raised = NoRaise /\ r.indexes # EmptyDict
              THEN r
              ELSE [r EXCEPT !.indexes = self_indexes]

\* a variant that pickles (version, indexes) into the index file, as the
\* SDK's own stub does
Write_pickles ==
  [files |-> IF index_file \in DOMAIN files
               THEN [files EXCEPT ![index_file] =
                       [exists |-> TRUE, version |-> _VERSION,
                        indexes |-> indexes]]
               ELSE files,
   indexes |-> indexes, lock |-> index_file_lock, raised |-> NoRaise]

\* [files, indexes, lock, raised] after Write()
Write ==
  [files |-> files, indexes |-> indexes, lock |-> index_file_lock,
   raised |-> NoRaise]

\* [sent, raised, response]: what went to the datastore server, what was
\* raised, and the caller's response object afterwards.  reply is what the
\* datastore server answers to this call.
_RemoteSend(request, response, method, reply) ==
  LET api_request == [method |-> method, service_name |-> "search",
                      request |-> Encode(request)]
      out(s, r, resp) == [sent |-> s, raised |-> r, response |-> resp]
  IN IF "__datastore_location" \notin attrs
       THEN \* the argument list of sendCommand cannot be evaluated
            out(<<>>, Raise("AttributeError"), response)
       ELSE IF ~reply.present \/ ~reply.has_response
         THEN out(<<api_request>>,
                  IF "datastore_errors" \in ModuleNames
                    THEN Raise("InternalError") ELSE Raise("NameError"),
                  response)
         ELSE IF reply.has_application_error
           THEN out(<<api_request>>,
                    [type |-> "ApplicationError",
                     code |-> reply.application_error.code,
                     detail |-> reply.application_error.detail],
                    response)
           ELSE IF reply.has_exception
             THEN out(<<api_request>>, Raise(reply.exception), response)
             ELSE IF WellFormed(reply.response)
               THEN out(<<api_request>>, NoRaise,
                        ParseFromString(response, reply.response))
               ELSE out(<<api_request>>, Raise("ProtocolBufferDecodeError"),
                        response)

-----------------------------------------------------------------------------
(* Actions: one per call *)

Init ==
  /\ constructed = FALSE
  /\ attrs = {}
  /\ indexes = EmptyDict
  /\ index_file = None
  /\ index_file_lock = FALSE
  /\ files \in [Paths -> FileStates]
  /\ current_namespace \in Namespaces
  /\ nextHandle = 1
  /\ last = NoCall
  /\ written = NoWrite

\* SearchServiceStub(index_file=f): a fresh object takes the stub's place
__init__ ==
  \E f \in IndexFiles :
    LET r == Read(f, EmptyDict)
    IN /\ attrs' = InitAttrs
       /\ index_file' = f
       /\ index_file_lock' = FALSE
       /\ indexes' = r.indexes
       /\ constructed' = (r.raised = NoRaise)
       /\ last' = [NoCall EXCEPT !.op = "__init__", !.arg_index_file = f,
                                 !.raised = r.raised,
                                 !.fs_touched = r.fs_touched,
                                 !.acquired = r.acquired]
       /\ written' = NoWrite
       /\ UNCHANGED <<files, current_namespace, nextHandle>>

\* namespace_manager.set_namespace, called by the application
set_namespace ==
  \E ns \in Namespaces :
    /\ ns # current_namespace
    /\ current_namespace' = ns
    /\ UNCHANGED <<constructed, attrs, indexes, index_file, index_file_lock,
                   files, nextHandle, last, written>>

_GetIndexCall ==
  /\ constructed
  /\ \E index_spec \in IndexSpecs, create \in BOOLEAN :
       LET r == _GetIndex(index_spec, create)
       IN /\ r.result.id = nextHandle => nextHandle <= MaxHandles
          /\ indexes' = r.indexes
          /\ nextHandle' = IF r.result.id = nextHandle THEN nextHandle + 1
                           ELSE nextHandle
          /\ last' = [NoCall EXCEPT !.op = "_GetIndex",
                                    !.index_spec = index_spec,
                                    !.create = create,
                                    !.result = r.result]
          /\ written' = NoWrite
          /\ UNCHANGED <<constructed, attrs, index_file, index_file_lock,
                         files, current_namespace>>

WriteCall ==
  /\ constructed
  /\ LET w == Write
     IN /\ files' = w.files
        /\ indexes' = w.indexes
        /\ index_file_lock' = w.lock
        /\ last' = [NoCall EXCEPT !.op = "Write", !.raised = w.raised]
        /\ written' = [valid |-> TRUE, indexes |-> indexes]
        /\ UNCHANGED <<constructed, attrs, index_file, current_namespace,
                       nextHandle>>

ReadCall ==
  /\ constructed
  /\ LET r == Read(index_file, indexes)
     IN /\ indexes' = r.indexes
        /\ last' = [NoCall EXCEPT !.op = "Read", !.raised = r.raised,
                                  !.fs_touched = r.fs_touched,
                                  !.acquired = r.acquired]
        /\ UNCHANGED <<constructed, attrs, index_file, index_file_lock, files,
                       current_namespace, nextHandle, written>>

\* the record of one API call: the caller handed in request and a fresh
\* response object, and r is what _RemoteSend made of them
Called(method, request, reply, r) ==
  [NoCall EXCEPT !.op = method, !.request = request, !.reply = reply,
                 !.response = r.response, !.sent = r.sent, !.raised = r.raised]

\* a variant that also indexes locally, as the SDK's own stub does
_Dynamic_IndexDocument_local ==
  /\ constructed
  /\ \E request \in Messages, reply \in Replies :
       last' = Called("IndexDocument", request, reply,
                      _RemoteSend(request, FreshResponse, "IndexDocument", reply))
  /\ LET g == _GetIndex([name |-> "a", namespace |-> None], TRUE)
     IN /\ g.result.id = nextHandle => nextHandle <= MaxHandles
        /\ indexes' = g.indexes
        /\ nextHandle' = IF g.result.id = nextHandle THEN nextHandle + 1
                         ELSE nextHandle
  /\ UNCHANGED <<constructed, attrs, index_file, index_file_lock,
                 files, current_namespace, written>>

_Dynamic_IndexDocument ==
  /\ constructed
  /\ \E request \in Messages, reply \in Replies :
       last' = Called("IndexDocument", request, reply,
                      _RemoteSend(request, FreshResponse, "IndexDocument", reply))
  /\ UNCHANGED <<constructed, attrs, indexes, index_file, index_file_lock,
                 files, current_namespace, nextHandle, written>>

_Dynamic_DeleteDocument ==
  /\ constructed
  /\ \E request \in Messages, reply \in Replies :
       last' = Called("DeleteDocument", request, reply,
                      _RemoteSend(request, FreshResponse, "DeleteDocument", reply))
  /\ UNCHANGED <<constructed, attrs, indexes, index_file, index_file_lock,
                 files, current_namespace, nextHandle, written>>

_Dynamic_ListIndexes ==
  /\ constructed
  /\ \E request \in Messages, reply \in Replies :
       last' = Called("ListIndexes", request, reply,
                      _RemoteSend(request, FreshResponse, "ListIndexes", reply))
  /\ UNCHANGED <<constructed, attrs, indexes, index_file, index_file_lock,
                 files, current_namespace, nextHandle, written>>

_Dynamic_ListDocuments ==
  /\ constructed
  /\ \E request \in Messages, reply \in Replies :
       last' = Called("ListDocuments", request, reply,
                      _RemoteSend(request, FreshResponse, "ListDocuments", reply))
  /\ UNCHANGED <<constructed, attrs, indexes, index_file, index_file_lock,
                 files, current_namespace, nextHandle, written>>

_Dynamic_Search ==
  /\ constructed
  /\ \E request \in Messages, reply \in Replies :
       last' = Called("Search", request, reply,
                      _RemoteSend(request, FreshResponse, "Search", reply))
  /\ UNCHANGED <<constructed, attrs, indexes, index_file, index_file_lock,
                 files, current_namespace, nextHandle, written>>

Next ==
  \/ __init__
  \/ set_namespace
  \/ _GetIndexCall
  \/ WriteCall
  \/ ReadCall
  \/ _Dynamic_IndexDocument
  \/ _Dynamic_DeleteDocument
  \/ _Dynamic_ListIndexes
  \/ _Dynamic_ListDocuments
  \/ _Dynamic_Search

Spec == Init /\ [][Next]_vars

-----------------------------------------------------------------------------
(* Properties *)

RemoteMethods == {"IndexDocument", "DeleteDocument", "ListIndexes",
                  "ListDocuments", "Search"}

\* a step of one of the five operations (each records its name in last)
RemoteCall ==
  \/ last'.op = "IndexDocument" /\ _Dynamic_IndexDocument
  \/ last'.op = "DeleteDocument" /\ _Dynamic_DeleteDocument
  \/ last'.op = "ListIndexes" /\ _Dynamic_ListIndexes
  \/ last'.op = "ListDocuments" /\ _Dynamic_ListDocuments
  \/ last'.op = "Search" /\ _Dynamic_Search

\* steps of the other calls
ReadStep == last'.op = "Read" /\ ReadCall
WriteStep == last'.op = "Write" /\ WriteCall
InitStep == last'.op = "__init__" /\ __init__
GetIndexStep == last'.op = "_GetIndex" /\ _GetIndexCall

\* an index file is configured
Configured(f) == f \notin {None, ""}

\* C1: each of the five operations sends the encoded request to the
\* datastore server exactly once, with service name "search" and its own
\* name as the method, and when the reply carries a response payload, no
\* application error and no exception, the caller's response object holds
\* the decoded payload.
C1_OneRoundTrip ==
  last.op \in RemoteMethods =>
    /\ last.sent = <<[method |-> last.op, service_name |-> "search",
                      request |-> Encode(last.request)]>>
    /\ (/\ last.reply.present
        /\ last.reply.has_response
        /\ ~last.reply.has_application_error
        /\ ~last.reply.has_exception)
         => /\ last.raised = NoRaise
            /\ last.response = Decode(last.reply.response)

C3_WriteIsNoOp ==
  [][WriteStep =>
       /\ files' = files
       /\ indexes' = indexes
       /\ index_file_lock' = index_file_lock
       /\ last'.raised = NoRaise]_vars

\* Write() was called with an index file configured and a non-empty cache
C3_Witness ==
  /\ last.op = "Write"
  /\ Configured(index_file)
  /\ Entries(indexes) # {}

\* C4: without an index file (None or empty) Read() touches neither the file
\* system nor the lock and leaves the cache unchanged, and a stub
\* constructed without an index file starts with an empty cache.
C4_ReadWithoutIndexFile ==
  [][/\ (ReadStep /\ ~Configured(index_file))
          => /\ indexes' = indexes
             /\ files' = files
             /\ index_file_lock' = index_file_lock
             /\ last'.raised = NoRaise
             /\ ~last'.fs_touched
             /\ ~last'.acquired
     /\ (InitStep /\ ~Configured(index_file'))
          => /\ constructed'
             /\ indexes' = EmptyDict
             /\ ~last'.fs_touched
             /\ ~last'.acquired]_vars

\* Read() was called on a stub without an index file and with a non-empty
\* cache
C4_Witness ==
  /\ last.op = "Read"
  /\ ~Configured(index_file)
  /\ Entries(indexes) # {}

\* C5: none of the five operations, succeeding or failing, changes the cache
\* or the index file.
C5_NothingLocal ==
  [][RemoteCall => indexes' = indexes /\ files' = files]_vars

\* one of the five operations was called on a stub with an index file and a
\* non-empty cache
C5_Witness ==
  /\ last.op \in RemoteMethods
  /\ Configured(index_file)
  /\ Entries(indexes) # {}

\* C6: when the reply carries an application error, the operation fails with
\* ApplicationError of that error's code and detail and the caller's
\* response object is unmodified, whatever else the reply carries.
C6_ApplicationError ==
  (/\ last.op \in RemoteMethods
   /\ last.reply.present
   /\ last.reply.has_application_error)
    => /\ last.raised = [type |-> "ApplicationError",
                         code |-> last.reply.application_error.code,
                         detail |-> last.reply.application_error.detail]
       /\ last.response = FreshResponse

\* what C7 says of every _GetIndex call but one that finds nothing and does
\* not create: the namespace None resolves to the current one and any other
\* is taken as given; a cached handle is returned and the cache unchanged;
\* create adds exactly one new handle under (namespace, name); no handle is
\* replaced or removed.
GetIndexCached(ns, name) == ns \in DOMAIN indexes /\ name \in DOMAIN indexes[ns]

GetIndexContract(ns, name, create, result) ==
  /\ DOMAIN indexes' \subseteq Namespaces
  /\ \A n \in DOMAIN indexes' : DOMAIN indexes'[n] \subseteq Names
  /\ Entries(indexes) \subseteq Entries(indexes')
  /\ GetIndexCached(ns, name)
       => result = indexes[ns][name] /\ indexes' = indexes
  /\ (~GetIndexCached(ns, name) /\ create)
       => /\ result # NoIndex
          /\ result \notin {e[3] : e \in Entries(indexes)}
          /\ Entries(indexes') = Entries(indexes) \cup {<<ns, name, result>>}
  /\ (~GetIndexCached(ns, name) /\ ~create)
       => result = NoIndex /\ Entries(indexes') = Entries(indexes)

ResolvedNamespace ==
  IF last'.index_spec.namespace = None THEN current_namespace
  ELSE last'.index_spec.namespace

\* C7, as stated: the contract above, and _GetIndex(spec, create=False) for
\* an index not in the cache leaves the cache unchanged: no index and no
\* namespace entry is added.
C7_GetIndexLeavesCache ==
  [][GetIndexStep =>
       /\ GetIndexContract(ResolvedNamespace, last'.index_spec.name,
                           last'.create, last'.result)
       /\ (~GetIndexCached(ResolvedNamespace, last'.index_spec.name)
           /\ ~last'.create) => indexes' = indexes]_vars

\* C7, amended: the contract above, and _GetIndex(spec, create=False) for an
\* index not in the cache adds no index; it adds an empty entry for the
\* namespace when the cache has none for it, and nothing else changes.
C7_GetIndexAddsNamespace ==
  [][GetIndexStep =>
       /\ GetIndexContract(ResolvedNamespace, last'.index_spec.name,
                           last'.create, last'.result)
       /\ (~GetIndexCached(ResolvedNamespace, last'.index_spec.name)
           /\ ~last'.create)
            => /\ DOMAIN indexes' = DOMAIN indexes \cup {ResolvedNamespace}
               /\ \A n \in DOMAIN indexes : indexes'[n] = indexes[n]
               /\ ResolvedNamespace \notin DOMAIN indexes
                    => indexes'[ResolvedNamespace] = EmptyDict]_vars

\* a lookup without create found nothing, in a cache that holds a handle and
\* an empty namespace entry
C7_Witness ==
  /\ last.op = "_GetIndex"
  /\ ~last.create
  /\ last.result = NoIndex
  /\ Entries(indexes) # {}
  /\ \E n \in DOMAIN indexes : DOMAIN indexes[n] = {}

====
